---- MODULE Spec2Model ----
(***************************************************************************)
(* Model of src/index.tsx: the progress store (loadGameState /             *)
(* saveGameState over localStorage and JSON), the screen machine of App    *)
(* (menu / chapters / game), the view-local state of ChapterSelect and     *)
(* GameView (tooltip and its 3000 ms timer, panel, restart confirmation,   *)
(* fade overlay and its 100 ms timer) and the asynchronous click-sound     *)
(* load.                                                                   *)
(*                                                                         *)
(* JavaScript values are records [t, n, s, props]; the text kept in        *)
(* localStorage is a sequence of JSON tokens, so that JSON.parse and       *)
(* JSON.stringify are real conversions (white space, key order and number  *)
(* spelling are visible in the text and lost or kept as in JavaScript).    *)
(* Number literals are integers of a bounded range; literals outside the   *)
(* range of a double are not modelled.                                     *)
(***************************************************************************)
EXTENDS Integers, Sequences, FiniteSets, TLC

\* ---------------------------------------------------------------- bounds

\* Largest chapter number written in a well-formed initial record.
MaxStored == 3

\* ------------------------------------------------------ program constants

\* ROMAN_NUMERALS.length: the chapter slots of the chapter-select screen.
NumChapters == 10

\* ------------------------------------------------------ JavaScript values

Prim(t, n, s) == [t |-> t, n |-> n, s |-> s, props |-> <<>>]
Undefined == Prim("undefined", 0, "")
Null == Prim("null", 0, "")
Num(k) == Prim("number", k, "")
Str(x) == Prim("string", 0, x)
Bool(b) == Prim("boolean", IF b THEN 1 ELSE 0, "")
\* An object: its own properties in insertion order.
Obj(props) == [t |-> "object", n |-> 0, s |-> "", props |-> props]
Prop(k, v) == [k |-> k, v |-> v]

\* ToBoolean, as used by `if (x)` and `a && b`.
Truthy(v) ==
  CASE v.t = "number" -> v.n # 0
    [] v.t = "string" -> v.s # ""
    [] v.t = "boolean" -> v.n = 1
    [] v.t = "object" -> TRUE
    [] OTHER -> FALSE

\* ToNumber; nan marks NaN.
ToNumber(v) ==
  CASE v.t = "number" -> [nan |-> FALSE, n |-> v.n]
    [] v.t = "boolean" -> [nan |-> FALSE, n |-> v.n]
    [] v.t = "null" -> [nan |-> FALSE, n |-> 0]
    [] v.t = "string" /\ v.s = "" -> [nan |-> FALSE, n |-> 0]
    [] v.t = "string" /\ v.s = "2" -> [nan |-> FALSE, n |-> 2]
    [] OTHER -> [nan |-> TRUE, n |-> 0]

\* a > b for a number a: both sides go through ToNumber, NaN compares false.
GreaterThan(a, b) ==
  LET x == ToNumber(a)
      y == ToNumber(b)
  IN  ~x.nan /\ ~y.nan /\ x.n > y.n

\* Index of key k in props, 0 when absent.
KeyIndex(props, k) ==
  LET hits == {i \in 1..Len(props) : props[i].k = k}
  IN  IF hits = {} THEN 0 ELSE CHOOSE i \in hits : TRUE

\* obj[k] = v on an ordinary object: an existing key keeps its place.
SetProp(props, k, v) ==
  LET i == KeyIndex(props, k)
  IN  IF i = 0 THEN Append(props, Prop(k, v))
      ELSE [props EXCEPT ![i] = Prop(k, v)]

\* v.k: a TypeError on null and undefined, undefined on other primitives.
Get(v, k) ==
  IF v.t \in {"null", "undefined"} THEN [threw |-> TRUE, val |-> Undefined]
  ELSE IF v.t # "object" \/ KeyIndex(v.props, k) = 0
       THEN [threw |-> FALSE, val |-> Undefined]
       ELSE [threw |-> FALSE, val |-> v.props[KeyIndex(v.props, k)].v]

\* Property read on a value known to be an object.
Field(v, k) == Get(v, k).val

\* ------------------------------------------------------------- JSON text

Tok(k, n, s) == [k |-> k, n |-> n, s |-> s]
LBrace == Tok("punct", 0, "{")
RBrace == Tok("punct", 0, "}")
Colon == Tok("punct", 0, ":")
Comma == Tok("punct", 0, ",")
\* White space between tokens.
Space == Tok("ws", 0, " ")
\* A character sequence that is no JSON token.
Garbage == Tok("bad", 0, "?")
\* A number literal in the spelling JSON.stringify writes.
NumTok(n) == Tok("num", n, "dec")
\* The same number in another spelling (1.0, 1e0).
NumTokAlt(n) == Tok("num", n, "alt")
StrTok(s) == Tok("str", 0, s)
LitTok(s) == Tok("lit", 0, s)

IsScalarTok(t) == t.k \in {"num", "str", "lit"}

ScalarVal(t) ==
  CASE t.k = "num" -> Num(t.n)
    [] t.k = "str" -> Str(t.s)
    [] t.s = "true" -> Bool(TRUE)
    [] t.s = "false" -> Bool(FALSE)
    [] OTHER -> Null

RECURSIVE ParseMembers(_, _, _)
\* The members toks[i..] of a flat object, added to props in order.
ParseMembers(toks, i, props) ==
  IF i > Len(toks) THEN props
  ELSE ParseMembers(toks, i + 4,
                    SetProp(props, toks[i].s, ScalarVal(toks[i + 2])))

\* key : scalar (, key : scalar)*
MembersOk(m) ==
  /\ Len(m) % 4 = 3
  /\ \A i \in 1..Len(m) :
       CASE i % 4 = 1 -> m[i].k = "str"
         [] i % 4 = 2 -> m[i] = Colon
         [] i % 4 = 3 -> IsScalarTok(m[i])
         [] OTHER -> m[i] = Comma

\* JSON.parse on a scalar or a flat object; threw marks a SyntaxError.
JsonParse(text) ==
  LET toks == SelectSeq(text, LAMBDA t : t.k # "ws")
      n == Len(toks)
  IN  IF n = 1 /\ IsScalarTok(toks[1])
      THEN [threw |-> FALSE, val |-> ScalarVal(toks[1])]
      ELSE IF n >= 2 /\ toks[1] = LBrace /\ toks[n] = RBrace
              /\ (n = 2 \/ MembersOk(SubSeq(toks, 2, n - 1)))
      THEN [threw |-> FALSE,
            val |-> Obj(ParseMembers(SubSeq(toks, 2, n - 1), 1, <<>>))]
      ELSE [threw |-> TRUE, val |-> Undefined]

ScalarTok(v) ==
  CASE v.t = "number" -> NumTok(v.n)
    [] v.t = "string" -> StrTok(v.s)
    [] v.t = "boolean" -> LitTok(IF v.n = 1 THEN "true" ELSE "false")
    [] OTHER -> LitTok("null")

RECURSIVE StringifyMembers(_, _, _)
\* Members props[i..], comma separated; an undefined value is left out.
StringifyMembers(props, i, first) ==
  IF i > Len(props) THEN <<>>
  ELSE IF props[i].v.t = "undefined"
       THEN StringifyMembers(props, i + 1, first)
       ELSE (IF first THEN <<>> ELSE <<Comma>>)
            \o <<StrTok(props[i].k), Colon, ScalarTok(props[i].v)>>
            \o StringifyMembers(props, i + 1, FALSE)

\* JSON.stringify of a scalar or a flat object: no white space.
JsonStringify(v) ==
  IF v.t = "object"
  THEN <<LBrace>> \o StringifyMembers(v.props, 1, TRUE) \o <<RBrace>>
  ELSE <<ScalarTok(v)>>

\* ------------------------------------------------------------ localStorage

\* The entry under GAME_STATE_KEY: absent, or a text.
Absent == [present |-> FALSE, text |-> <<>>]
Stored(text) == [present |-> TRUE, text |-> text]


\* ---------------------------------------------------------- progress store

CurrentChapterKey == "currentChapter"
UnlockedChaptersKey == "unlockedChapters"

defaultGameState ==
  Obj(<<Prop(CurrentChapterKey, Num(1)), Prop(UnlockedChaptersKey, Num(1))>>)

\* LoadTry with the check `parsedState.currentChapter &&
\* parsedState.unlockedChapters` cut down to its first operand.
LoadTry_OnlyCurrentChecked(store, readFails) ==
  IF readFails THEN [threw |-> TRUE, found |-> FALSE, ret |-> Undefined]
  ELSE IF ~store.present \/ store.text = <<>>
  THEN [threw |-> FALSE, found |-> FALSE, ret |-> Undefined]
  ELSE LET parsedState == JsonParse(store.text)
           cc == Get(parsedState.val, CurrentChapterKey)
       IN  IF parsedState.threw \/ cc.threw
           THEN [threw |-> TRUE, found |-> FALSE, ret |-> Undefined]
           ELSE IF Truthy(cc.val)
           THEN [threw |-> FALSE, found |-> TRUE, ret |-> parsedState.val]
           ELSE [threw |-> FALSE, found |-> FALSE, ret |-> Undefined]

\* The try block of loadGameState: ret is the value of its return statement,
\* found is FALSE when control falls out of the block, threw marks an
\* exception raised inside it.
LoadTry(store, readFails) ==
  IF readFails THEN [threw |-> TRUE, found |-> FALSE, ret |-> Undefined]
  ELSE IF ~store.present \/ store.text = <<>>
  THEN [threw |-> FALSE, found |-> FALSE, ret |-> Undefined]
  ELSE LET parsedState == JsonParse(store.text)
           cc == Get(parsedState.val, CurrentChapterKey)
           uc == Get(parsedState.val, UnlockedChaptersKey)
       IN  IF parsedState.threw \/ cc.threw
           THEN [threw |-> TRUE, found |-> FALSE, ret |-> Undefined]
           ELSE IF Truthy(cc.val) /\ Truthy(uc.val)
           THEN [threw |-> FALSE, found |-> TRUE, ret |-> parsedState.val]
           ELSE [threw |-> FALSE, found |-> FALSE, ret |-> Undefined]

\* loadGameState: the catch logs and control reaches `return defaultGameState`.
loadGameState(store, readFails) ==
  LET r == LoadTry(store, readFails)
  IN  [threw |-> FALSE,
       log |-> IF r.threw THEN {"error:load"} ELSE {},
       state |-> IF ~r.threw /\ r.found THEN r.ret ELSE defaultGameState]

\* saveGameState without its try/catch: a failing setItem throws out of the
\* effect.
saveGameState_NoCatch(state, store, writeFails) ==
  IF writeFails
  THEN [threw |-> TRUE, log |-> {}, store |-> store]
  ELSE [threw |-> FALSE, log |-> {"setItem"},
        store |-> Stored(JsonStringify(state))]

\* saveGameState writing currentChapter alone.
saveGameState_OnlyCurrentChapter(state, store, writeFails) ==
  IF writeFails
  THEN [threw |-> FALSE, log |-> {"error:save"}, store |-> store]
  ELSE [threw |-> FALSE, log |-> {"setItem"},
        store |-> Stored(JsonStringify(
                   Obj(<<Prop(CurrentChapterKey,
                              Field(state, CurrentChapterKey))>>)))]

\* saveGameState: setItem either stores the text or throws, and the catch
\* logs.
saveGameState(state, store, writeFails) ==
  IF writeFails
  THEN [threw |-> FALSE, log |-> {"error:save"}, store |-> store]
  ELSE [threw |-> FALSE, log |-> {"setItem"},
        store |-> Stored(JsonStringify(state))]

\* ------------------------------------------------------------------ state

VARIABLES
  phase,              \* "unmounted", "mounted", "torndown", "crashed"
  storage,            \* localStorage entry under GAME_STATE_KEY
  storageDenied,      \* this page may not use localStorage: every call throws
  writeFailed,        \* a setItem of this page load has thrown
  view,               \* App: 'menu', 'chapters', 'game'
  gameState,          \* App: GameState object
  activeChapter,      \* App: chapter handed to GameView
  audioContext,       \* App: audioContext is set
  gainNode,           \* App: gainNode is set
  audioBuffer,        \* App: audioBuffer is set
  contextState,       \* AudioContext.state
  isCancelled,        \* flag of the sound-load effect
  soundPc,            \* position of loadSound
  visibleTooltip,     \* ChapterSelect: {} for null, {index}
  tooltipTimeoutRef,  \* ChapterSelect: {} for null, {index of the timer}
  tooltipTimers,      \* pending tooltip timers [idx, live]
  isPanelVisible,     \* GameView
  showRestartConfirm, \* GameView
  isFadingIn,         \* GameView
  fadeTimer,          \* the 100 ms timer of GameView is pending
  out,                \* what the last step did outside: sound, log, storage
  saveCalls           \* arguments of the saveGameState calls of the last step

envVars == <<phase, storage, storageDenied, writeFailed>>
appVars == <<view, gameState, activeChapter>>
audioVars == <<audioContext, gainNode, audioBuffer, contextState,
               isCancelled, soundPc>>
tooltipVars == <<visibleTooltip, tooltipTimeoutRef, tooltipTimers>>
gameViewVars == <<isPanelVisible, showRestartConfirm, isFadingIn, fadeTimer>>
vars == <<envVars, appVars, audioVars, tooltipVars, gameViewVars, out,
          saveCalls>>

\* ------------------------------------------------------- initial contents

Rec(cc, uc) ==
  <<LBrace, StrTok(CurrentChapterKey), Colon, cc, Comma,
    StrTok(UnlockedChaptersKey), Colon, uc, RBrace>>

\* Records as the app writes them.
WellFormedTexts == {Rec(NumTok(c), NumTok(u)) : c, u \in 1..MaxStored}

\* Anything else a user or another program may have left under the key.
OddTexts ==
  { <<>>,
    <<Garbage>>,
    <<LBrace, StrTok(CurrentChapterKey), Colon>>,
    <<LitTok("null")>>,
    <<NumTok(5)>>,
    <<LBrace, RBrace>>,
    <<LBrace, StrTok(CurrentChapterKey), Colon, NumTok(1), RBrace>>,
    <<LBrace, StrTok(UnlockedChaptersKey), Colon, NumTok(2), RBrace>>,
    <<LBrace, StrTok(UnlockedChaptersKey), Colon, NumTok(2), Comma,
      StrTok(CurrentChapterKey), Colon, NumTok(1), RBrace>>,
    <<LBrace, Space, StrTok(CurrentChapterKey), Colon, Space, NumTok(1),
      Comma, Space, StrTok(UnlockedChaptersKey), Colon, Space, NumTok(2),
      Space, RBrace>>,
    Rec(NumTokAlt(1), NumTok(1)),
    Rec(NumTok(0), NumTok(1)),
    Rec(NumTok(1), NumTok(0)),
    Rec(NumTok(-1), NumTok(-1)),
    Rec(StrTok("abc"), NumTok(1)),
    Rec(NumTok(1), StrTok("abc")),
    Rec(NumTok(1), StrTok("2")),
    Rec(NumTok(1), LitTok("null")),
    Rec(LitTok("true"), LitTok("true")),
    <<LBrace, StrTok(CurrentChapterKey), Colon, NumTok(1), Comma,
      StrTok(UnlockedChaptersKey), Colon, NumTok(2), Comma,
      StrTok("extra"), Colon, LitTok("true"), RBrace>> }

InitialContents ==
  {Absent} \cup {Stored(t) : t \in WellFormedTexts \cup OddTexts}

\* Before root.render: nothing is mounted, the store holds what it holds.
Unmounted ==
  /\ phase = "unmounted"
  /\ storageDenied = FALSE
  /\ writeFailed = FALSE
  /\ view = "menu"
  /\ gameState = Undefined
  /\ activeChapter = Undefined
  /\ audioContext = FALSE
  /\ gainNode = FALSE
  /\ audioBuffer = FALSE
  /\ contextState = "none"
  /\ isCancelled = FALSE
  /\ soundPc = "idle"
  /\ visibleTooltip = {}
  /\ tooltipTimeoutRef = {}
  /\ tooltipTimers = {}
  /\ isPanelVisible = FALSE
  /\ showRestartConfirm = FALSE
  /\ isFadingIn = FALSE
  /\ fadeTimer = FALSE
  /\ out = {}
  /\ saveCalls = <<>>

Init ==
  /\ storage \in InitialContents
  /\ Unmounted


\* ------------------------------------------------------------- components

Indexes == 0..(NumChapters - 1)

\* playClickSound that tests the context and the gain node only.
playClickSound_NoBufferTest ==
  LET ready == audioContext /\ gainNode
  IN  [out |-> IF ready THEN {"click"} ELSE {},
       ctx |-> IF ready /\ contextState = "suspended" THEN "running"
               ELSE contextState]

\* playClickSound: nothing unless context, buffer and gain are all set; a
\* suspended context is resumed and a buffer source is started.
playClickSound ==
  LET ready == audioContext /\ audioBuffer /\ gainNode
  IN  [out |-> IF ready THEN {"click"} ELSE {},
       ctx |-> IF ready /\ contextState = "suspended" THEN "running"
               ELSE contextState]

\* clearTimeout(tooltipTimeoutRef.current), guarded by `if (ref.current)`.
ClearRefTimer(timers) ==
  {t \in timers : ~(t.live /\ t.idx \in tooltipTimeoutRef)}

\* What that clearTimeout does outside: it cancels a timer when the timer the
\* ref names is still pending, and nothing when it has fired already.
ClearRefLog ==
  IF \E t \in tooltipTimers : t.live /\ t.idx \in tooltipTimeoutRef
  THEN {"clearTimeout"} ELSE {}

\* A ChapterSelect without the cleanup effect: its timer stays pending.
TimersAfterCleanup_NoClear ==
  {[t EXCEPT !.live = FALSE] : t \in tooltipTimers}

\* The cleanup of ChapterSelect clears the timer its ref names; a timer that
\* is still pending afterwards belongs to no mounted component.
TimersAfterCleanup ==
  {[t EXCEPT !.live = FALSE] : t \in ClearRefTimer(tooltipTimers)}

\* ChapterSelect taken down (cleanup) or mounted afresh (useState(null),
\* useRef(null)).
ResetChapterSelect ==
  /\ visibleTooltip' = {}
  /\ tooltipTimeoutRef' = {}
  /\ tooltipTimers' = TimersAfterCleanup

\* GameView mounted: its useState initial values and the effect's setTimeout.
MountGameView ==
  /\ isPanelVisible' = FALSE
  /\ showRestartConfirm' = FALSE
  /\ isFadingIn' = TRUE
  /\ fadeTimer' = TRUE

\* GameView taken down: the cleanup clears its timer.
UnmountGameView ==
  /\ isPanelVisible' = FALSE
  /\ showRestartConfirm' = FALSE
  /\ isFadingIn' = FALSE
  /\ fadeTimer' = FALSE

\* App renders again after one of its own states changed. MainMenu,
\* ChapterSelect and GameView are functions created inside App, so each render
\* makes new component types: what was mounted is taken down and the
\* component of view v is mounted afresh.
AppRender(v) ==
  /\ ResetChapterSelect
  /\ IF v = "game" THEN MountGameView ELSE UnmountGameView

\* isLocked written with >=: the chapter at the boundary is locked too.
isLocked_AtBoundary(chapterNumber, unlockedChapters) ==
  GreaterThan(Num(chapterNumber + 1), unlockedChapters)

\* isLocked of the chapter list.
isLocked(chapterNumber, unlockedChapters) ==
  GreaterThan(Num(chapterNumber), unlockedChapters)

\* ---------------------------------------------------------------- actions

\* A mount whose save effect skips the first render.
Mount_NoFirstSave(denied, writeFails) ==
  /\ phase = "unmounted"
  /\ storageDenied' = denied
  /\ writeFailed' = FALSE
  /\ LET r == loadGameState(storage, denied)
     IN  /\ phase' = IF r.threw THEN "crashed" ELSE "mounted"
         /\ gameState' = r.state
         /\ activeChapter' = Field(r.state, CurrentChapterKey)
         /\ saveCalls' = <<>>
         /\ out' = r.log
  /\ UNCHANGED storage
  /\ view' = "menu"
  /\ audioContext' = TRUE
  /\ gainNode' = TRUE
  /\ audioBuffer' = FALSE
  /\ contextState' \in {"suspended", "running"}
  /\ isCancelled' = FALSE
  /\ soundPc' = "fetch"
  /\ UNCHANGED <<tooltipVars, gameViewVars>>

\* root.render(<App />): the state initialisers, then the effects (audio
\* set-up and the first saveGameState). Whether the page may use the store
\* is settled when it loads; a write can also fail alone (quota).
Mount(denied, writeFails) ==
  /\ phase = "unmounted"
  /\ storageDenied' = denied
  /\ writeFailed' = (denied \/ writeFails)
  /\ LET r == loadGameState(storage, denied)
         w == saveGameState(r.state, storage, denied \/ writeFails)
     IN  /\ phase' = IF r.threw \/ w.threw THEN "crashed" ELSE "mounted"
         /\ gameState' = r.state
         /\ activeChapter' = Field(r.state, CurrentChapterKey)
         /\ storage' = w.store
         /\ saveCalls' = <<r.state>>
         /\ out' = r.log \cup w.log
  /\ view' = "menu"
  /\ audioContext' = TRUE
  /\ gainNode' = TRUE
  /\ audioBuffer' = FALSE
  /\ contextState' \in {"suspended", "running"}
  /\ isCancelled' = FALSE
  /\ soundPc' = "fetch"
  /\ UNCHANGED <<tooltipVars, gameViewVars>>

\* navigateToGame without its setGameState: no new GameState, no save.
navigateToGame_NoSetGameState(chapter, writeFails) ==
  LET snd == playClickSound
  IN  /\ activeChapter' = chapter
      /\ view' = "game"
      /\ AppRender("game")
      /\ contextState' = snd.ctx
      /\ saveCalls' = <<>>
      /\ out' = snd.out \cup ClearRefLog
      /\ UNCHANGED <<envVars, gameState, audioContext, gainNode, audioBuffer,
                     isCancelled, soundPc>>

\* navigateToGame that also makes the entered chapter the unlocked count.
navigateToGame_Unlocks(chapter, writeFails) ==
  LET snd == playClickSound
      next == Obj(SetProp(SetProp(gameState.props, CurrentChapterKey,
                                  chapter),
                          UnlockedChaptersKey, chapter))
      w == saveGameState(next, storage, storageDenied \/ writeFails)
  IN  /\ activeChapter' = chapter
      /\ gameState' = next
      /\ view' = "game"
      /\ AppRender("game")
      /\ storage' = w.store
      /\ writeFailed' = (writeFailed \/ storageDenied \/ writeFails)
      /\ phase' = IF w.threw THEN "crashed" ELSE phase
      /\ contextState' = snd.ctx
      /\ saveCalls' = <<next>>
      /\ out' = snd.out \cup w.log \cup ClearRefLog
      /\ UNCHANGED <<storageDenied, audioContext, gainNode, audioBuffer,
                     isCancelled, soundPc>>

\* navigateToGame without its setActiveChapter.
navigateToGame_NoSetActiveChapter(chapter, writeFails) ==
  LET snd == playClickSound
      next == Obj(SetProp(gameState.props, CurrentChapterKey, chapter))
      w == saveGameState(next, storage, storageDenied \/ writeFails)
  IN  /\ gameState' = next
      /\ view' = "game"
      /\ AppRender("game")
      /\ storage' = w.store
      /\ writeFailed' = (writeFailed \/ storageDenied \/ writeFails)
      /\ phase' = IF w.threw THEN "crashed" ELSE phase
      /\ contextState' = snd.ctx
      /\ saveCalls' = <<next>>
      /\ out' = snd.out \cup w.log \cup ClearRefLog
      /\ UNCHANGED <<storageDenied, activeChapter, audioContext, gainNode,
                     audioBuffer, isCancelled, soundPc>>

\* navigateToGame whose save runs on the GameState of before the update.
navigateToGame_SavesStale(chapter, writeFails) ==
  LET snd == playClickSound
      next == Obj(SetProp(gameState.props, CurrentChapterKey, chapter))
      w == saveGameState(gameState, storage, storageDenied \/ writeFails)
  IN  /\ activeChapter' = chapter
      /\ gameState' = next
      /\ view' = "game"
      /\ AppRender("game")
      /\ storage' = w.store
      /\ writeFailed' = (writeFailed \/ storageDenied \/ writeFails)
      /\ phase' = IF w.threw THEN "crashed" ELSE phase
      /\ contextState' = snd.ctx
      /\ saveCalls' = <<gameState>>
      /\ out' = snd.out \cup w.log \cup ClearRefLog
      /\ UNCHANGED <<storageDenied, audioContext, gainNode, audioBuffer,
                     isCancelled, soundPc>>

\* navigateToGame, and the save effect its setGameState triggers: the three
\* setters are applied in one render, after which the effect runs once on
\* the new GameState.
navigateToGame(chapter, writeFails) ==
  LET snd == playClickSound
      next == Obj(SetProp(gameState.props, CurrentChapterKey, chapter))
      w == saveGameState(next, storage, storageDenied \/ writeFails)
  IN  /\ activeChapter' = chapter
      /\ gameState' = next
      /\ view' = "game"
      /\ AppRender("game")
      /\ storage' = w.store
      /\ writeFailed' = (writeFailed \/ storageDenied \/ writeFails)
      /\ phase' = IF w.threw THEN "crashed" ELSE phase
      /\ contextState' = snd.ctx
      /\ saveCalls' = <<next>>
      /\ out' = snd.out \cup w.log \cup ClearRefLog
      /\ UNCHANGED <<storageDenied, audioContext, gainNode, audioBuffer,
                     isCancelled, soundPc>>

handleNavigation(targetView) ==
  LET snd == playClickSound
  IN  /\ view' = targetView
      /\ AppRender(targetView)
      /\ contextState' = snd.ctx
      /\ saveCalls' = <<>>
      /\ out' = snd.out \cup ClearRefLog
      /\ UNCHANGED <<envVars, gameState, activeChapter, audioContext,
                     gainNode, audioBuffer, isCancelled, soundPc>>

handleSilentNavigation(targetView) ==
  /\ view' = targetView
  /\ AppRender(targetView)
  /\ saveCalls' = <<>>
  /\ out' = ClearRefLog
  /\ UNCHANGED <<envVars, gameState, activeChapter, audioVars>>

showTooltip(index) ==
  LET snd == playClickSound
  IN  /\ tooltipTimers' =
           ClearRefTimer(tooltipTimers) \cup {[idx |-> index, live |-> TRUE]}
      /\ visibleTooltip' = {index}
      /\ tooltipTimeoutRef' = {index}
      /\ contextState' = snd.ctx
      /\ saveCalls' = <<>>
      /\ out' = snd.out \cup ClearRefLog
      /\ UNCHANGED <<envVars, appVars, gameViewVars, audioContext,
                     gainNode, audioBuffer, isCancelled, soundPc>>

\* MainMenu, "Начать".
Start ==
  /\ phase = "mounted" /\ view = "menu"
  /\ \E writeFails \in BOOLEAN :
       navigateToGame(Field(gameState, CurrentChapterKey), writeFails)

\* MainMenu, "Загрузить".
OpenChapters ==
  /\ phase = "mounted" /\ view = "menu"
  /\ handleNavigation("chapters")

\* A locked slot whose click is not gated: it navigates like an unlocked one.
ClickLockedChapter_Navigates(index) ==
  /\ phase = "mounted" /\ view = "chapters"
  /\ isLocked(index + 1, Field(gameState, UnlockedChaptersKey))
  /\ \E writeFails \in BOOLEAN : navigateToGame(Num(index + 1), writeFails)

\* A chapter slot whose isLocked is true.
ClickLockedChapter(index) ==
  /\ phase = "mounted" /\ view = "chapters"
  /\ isLocked(index + 1, Field(gameState, UnlockedChaptersKey))
  /\ showTooltip(index)

\* A chapter slot whose isLocked is false.
ClickUnlockedChapter(index) ==
  /\ phase = "mounted" /\ view = "chapters"
  /\ ~isLocked(index + 1, Field(gameState, UnlockedChaptersKey))
  /\ \E writeFails \in BOOLEAN : navigateToGame(Num(index + 1), writeFails)

\* ChapterSelect, "Назад".
Back ==
  /\ phase = "mounted" /\ view = "chapters"
  /\ handleNavigation("menu")

\* The callback of a tooltip timer: setVisibleTooltip(null), which does
\* nothing on a component that is no longer mounted.
TooltipTimeout(t) ==
  /\ phase \in {"mounted", "torndown"}
  /\ t \in tooltipTimers
  /\ tooltipTimers' = tooltipTimers \ {t}
  /\ visibleTooltip' = IF t.live THEN {} ELSE visibleTooltip
  /\ saveCalls' = <<>>
  /\ out' = {}
  /\ UNCHANGED <<envVars, appVars, audioVars, gameViewVars,
                 tooltipTimeoutRef>>

\* An exit button that goes back to the chapter list.
Exit_ToChapters ==
  /\ phase = "mounted" /\ view = "game"
  /\ handleSilentNavigation("chapters")

\* GameView, exit button: stopPropagation, then onExit.
Exit ==
  /\ phase = "mounted" /\ view = "game"
  /\ handleSilentNavigation("menu")

\* togglePanel, from the trigger area or from the panel's own surface.
togglePanel ==
  /\ phase = "mounted" /\ view = "game"
  /\ isPanelVisible' = ~isPanelVisible
  /\ saveCalls' = <<>>
  /\ out' = {}
  /\ UNCHANGED <<envVars, appVars, audioVars, tooltipVars,
                 showRestartConfirm, isFadingIn, fadeTimer>>

\* A restart button without stopPropagation: the click bubbles to the panel,
\* whose onClick is togglePanel.
ClickRestart_Propagates ==
  /\ phase = "mounted" /\ view = "game"
  /\ showRestartConfirm' = TRUE
  /\ isPanelVisible' = ~isPanelVisible
  /\ saveCalls' = <<>>
  /\ out' = {}
  /\ UNCHANGED <<envVars, appVars, audioVars, tooltipVars,
                 isFadingIn, fadeTimer>>

\* GameView, restart button: stopPropagation, then setShowRestartConfirm(true).
ClickRestart ==
  /\ phase = "mounted" /\ view = "game"
  /\ showRestartConfirm' = TRUE
  /\ saveCalls' = <<>>
  /\ out' = {}
  /\ UNCHANGED <<envVars, appVars, audioVars, tooltipVars,
                 isPanelVisible, isFadingIn, fadeTimer>>

\* handleRestart that closes the confirmation and leaves the panel alone.
handleRestart_KeepsPanel ==
  /\ phase = "mounted" /\ view = "game" /\ showRestartConfirm
  /\ showRestartConfirm' = FALSE
  /\ saveCalls' = <<>>
  /\ out' = {"log:restart"}
  /\ UNCHANGED <<envVars, appVars, audioVars, tooltipVars,
                 isPanelVisible, isFadingIn, fadeTimer>>

\* Confirmation dialog, "Да": console.log, then both setters.
handleRestart ==
  /\ phase = "mounted" /\ view = "game" /\ showRestartConfirm
  /\ showRestartConfirm' = FALSE
  /\ isPanelVisible' = FALSE
  /\ saveCalls' = <<>>
  /\ out' = {"log:restart"}
  /\ UNCHANGED <<envVars, appVars, audioVars, tooltipVars,
                 isFadingIn, fadeTimer>>

\* Confirmation dialog, "Нет".
DeclineRestart ==
  /\ phase = "mounted" /\ view = "game" /\ showRestartConfirm
  /\ showRestartConfirm' = FALSE
  /\ saveCalls' = <<>>
  /\ out' = {}
  /\ UNCHANGED <<envVars, appVars, audioVars, tooltipVars,
                 isPanelVisible, isFadingIn, fadeTimer>>

\* The 100 ms timer of GameView: setIsFadingIn(false).
FadeTimeout ==
  /\ phase = "mounted" /\ fadeTimer
  /\ isFadingIn' = FALSE
  /\ fadeTimer' = FALSE
  /\ saveCalls' = <<>>
  /\ out' = {}
  /\ UNCHANGED <<envVars, appVars, audioVars, tooltipVars,
                 isPanelVisible, showRestartConfirm>>

\* DialogueBox, a choice button: console.log, then playClickSound.
handleChoice ==
  /\ phase = "mounted" /\ view = "game"
  /\ LET snd == playClickSound
     IN  /\ contextState' = snd.ctx
         /\ saveCalls' = <<>>
         /\ out' = {"log:choice"} \cup snd.out
  /\ UNCHANGED <<envVars, appVars, tooltipVars, gameViewVars,
                 audioContext, gainNode, audioBuffer, isCancelled, soundPc>>

\* The catch of loadSound.
SoundFailed ==
  /\ soundPc' = "failed"
  /\ saveCalls' = <<>>
  /\ out' = IF isCancelled THEN {} ELSE {"error:audio"}
  /\ UNCHANGED <<envVars, appVars, tooltipVars, gameViewVars,
                 audioContext, gainNode, audioBuffer, contextState,
                 isCancelled>>

\* loadSound after `await fetch`: a rejected fetch or a response that is not
\* ok goes to the catch, otherwise the body is read.
FetchSettled(ok) ==
  /\ phase \in {"mounted", "torndown"} /\ soundPc = "fetch"
  /\ IF ok
     THEN /\ soundPc' = "arrayBuffer"
          /\ saveCalls' = <<>>
          /\ out' = {}
          /\ UNCHANGED <<envVars, appVars, tooltipVars, gameViewVars,
                         audioContext, gainNode, audioBuffer, contextState,
                         isCancelled>>
     ELSE SoundFailed

\* loadSound after `await response.arrayBuffer()`.
BodySettled(ok) ==
  /\ phase \in {"mounted", "torndown"} /\ soundPc = "arrayBuffer"
  /\ IF ok
     THEN /\ soundPc' = IF isCancelled THEN "returned" ELSE "decode"
          /\ saveCalls' = <<>>
          /\ out' = IF isCancelled THEN {} ELSE {"decodeAudioData"}
          /\ UNCHANGED <<envVars, appVars, tooltipVars, gameViewVars,
                         audioContext, gainNode, audioBuffer, contextState,
                         isCancelled>>
     ELSE SoundFailed

\* loadSound without the isCancelled test after the decode.
DecodeSettled_NoCancelCheck(ok) ==
  /\ phase \in {"mounted", "torndown"} /\ soundPc = "decode"
  /\ IF ok
     THEN /\ soundPc' = "done"
          /\ audioBuffer' = TRUE
          /\ AppRender(view)
          /\ saveCalls' = <<>>
          /\ out' = ClearRefLog
          /\ UNCHANGED <<envVars, appVars, audioContext, gainNode,
                         contextState, isCancelled>>
     ELSE SoundFailed

\* loadSound after `await context.decodeAudioData`: setAudioBuffer makes App
\* render again.
DecodeSettled(ok) ==
  /\ phase \in {"mounted", "torndown"} /\ soundPc = "decode"
  /\ IF ok
     THEN IF isCancelled
          THEN /\ soundPc' = "returned"
               /\ saveCalls' = <<>>
               /\ out' = {}
               /\ UNCHANGED <<envVars, appVars, tooltipVars,
                              gameViewVars, audioContext, gainNode,
                              audioBuffer, contextState, isCancelled>>
          ELSE /\ soundPc' = "done"
               /\ audioBuffer' = TRUE
               /\ AppRender(view)
               /\ saveCalls' = <<>>
               /\ out' = ClearRefLog
               /\ UNCHANGED <<envVars, appVars, audioContext, gainNode,
                              contextState, isCancelled>>
     ELSE SoundFailed

\* App is taken down: every cleanup runs.
Teardown ==
  /\ phase = "mounted"
  /\ phase' = "torndown"
  /\ isCancelled' = TRUE
  /\ contextState' = "closed"
  /\ ResetChapterSelect
  /\ UnmountGameView
  /\ saveCalls' = <<>>
  /\ out' = ClearRefLog
  /\ UNCHANGED <<storage, storageDenied, writeFailed, appVars,
                 audioContext, gainNode, audioBuffer, soundPc>>

\* The page is reloaded: only localStorage survives.
Reload ==
  /\ phase \in {"mounted", "torndown", "crashed"}
  /\ UNCHANGED storage
  /\ phase' = "unmounted"
  /\ storageDenied' = FALSE
  /\ writeFailed' = FALSE
  /\ view' = "menu"
  /\ gameState' = Undefined
  /\ activeChapter' = Undefined
  /\ audioContext' = FALSE
  /\ gainNode' = FALSE
  /\ audioBuffer' = FALSE
  /\ contextState' = "none"
  /\ isCancelled' = FALSE
  /\ soundPc' = "idle"
  /\ visibleTooltip' = {}
  /\ tooltipTimeoutRef' = {}
  /\ tooltipTimers' = {}
  /\ isPanelVisible' = FALSE
  /\ showRestartConfirm' = FALSE
  /\ isFadingIn' = FALSE
  /\ fadeTimer' = FALSE
  /\ saveCalls' = <<>>
  /\ out' = {}

Next ==
  \/ \E denied, writeFails \in BOOLEAN : Mount(denied, writeFails)
  \/ Start
  \/ OpenChapters
  \/ \E index \in Indexes : ClickLockedChapter(index)
  \/ \E index \in Indexes : ClickUnlockedChapter(index)
  \/ Back
  \/ \E t \in tooltipTimers : TooltipTimeout(t)
  \/ Exit
  \/ togglePanel
  \/ ClickRestart
  \/ handleRestart
  \/ DeclineRestart
  \/ FadeTimeout
  \/ handleChoice
  \/ \E ok \in BOOLEAN : FetchSettled(ok)
  \/ \E ok \in BOOLEAN : BodySettled(ok)
  \/ \E ok \in BOOLEAN : DecodeSettled(ok)
  \/ Teardown
  \/ Reload

Spec == Init /\ [][Next]_vars


\* ----------------------------------------------------------------- claims

ChapterNumbers == {Num(k) : k \in 1..NumChapters}

\* What load() would return from the persisted record as it stands.
Persisted(store) == loadGameState(store, FALSE).state

\* The entry is absent, is not valid JSON, or is a record that misses
\* currentChapter or unlockedChapters.
Unusable(store) ==
  \/ ~store.present
  \/ JsonParse(store.text).threw
  \/ LET v == JsonParse(store.text).val
     IN  /\ v.t = "object"
         /\ \/ KeyIndex(v.props, CurrentChapterKey) = 0
            \/ KeyIndex(v.props, UnlockedChaptersKey) = 0

\* C1: mounting never throws out of load(), and when the persisted entry is
\* absent, not valid JSON or a record missing either field, or when reading
\* the store fails, load() returns exactly the default state {1, 1}.
C1_LoadFallsBackToDefault ==
  [][ (phase = "unmounted" /\ phase' # "unmounted")
        => /\ phase' = "mounted"
           /\ (Unusable(storage) \/ storageDenied')
                => gameState' = defaultGameState ]_vars

\* C1 witness: the app is mounted on the default state after a load that
\* logged a parse failure, over an entry that is still the unusable one
\* (the first save failed).
C1_Witness ==
  /\ phase = "mounted" /\ ~storageDenied
  /\ "error:load" \in out
  /\ "error:save" \in out
  /\ storage.present /\ JsonParse(storage.text).threw
  /\ gameState = defaultGameState

IsPositiveInteger(v) == v.t = "number" /\ v.n >= 1

\* C2: in every reachable state of the mounted app currentChapter and
\* unlockedChapters are both integers >= 1.
C2_ChaptersArePositiveIntegers ==
  phase = "mounted"
    => /\ IsPositiveInteger(Field(gameState, CurrentChapterKey))
       /\ IsPositiveInteger(Field(gameState, UnlockedChaptersKey))

\* C3: selecting a locked chapter leaves the view on the chapter list,
\* changes neither currentChapter, activeChapter nor the persisted record,
\* and makes that slot's tooltip the visible one with its hide timer armed.
C3_LockedSelectionOnlyArmsTooltip ==
  [][ \A i \in Indexes :
        ( /\ phase = "mounted" /\ view = "chapters"
          /\ isLocked(i + 1, Field(gameState, UnlockedChaptersKey))
          /\ ClickLockedChapter(i) )
        => /\ view' = "chapters"
           /\ phase' = "mounted"
           /\ UNCHANGED <<gameState, activeChapter, storage, gameViewVars,
                          audioBuffer, soundPc>>
           /\ "setItem" \notin out'
           /\ visibleTooltip' = {i}
           /\ tooltipTimeoutRef' = {i}
           /\ tooltipTimers' = {[idx |-> i, live |-> TRUE]} ]_vars

\* C3 witness: chapter 3 is locked with unlockedChapters = 1, its tooltip is
\* showing and the view is still the chapter list.
C3_Witness ==
  /\ phase = "mounted" /\ view = "chapters"
  /\ Field(gameState, UnlockedChaptersKey) = Num(1)
  /\ visibleTooltip = {2}
  /\ tooltipTimers = {[idx |-> 2, live |-> TRUE]}

ScreenTransitions ==
  { <<"menu", "game">>, <<"menu", "chapters">>, <<"chapters", "game">>,
    <<"chapters", "menu">>, <<"game", "menu">> }

\* A step of the screen machine.
ScreenStep ==
  \/ Start
  \/ OpenChapters
  \/ \E index \in Indexes : ClickUnlockedChapter(index)
  \/ Back
  \/ Exit

\* The view changes only along the transitions of the screen machine, and
\* the app mounts on the menu with the loaded chapter as activeChapter.
ScreenMachineSteps ==
  [][ /\ (phase = "unmounted" /\ phase' = "mounted")
           => /\ view' = "menu"
              /\ activeChapter' = Field(gameState', CurrentChapterKey)
      /\ (phase = "mounted" /\ phase' = "mounted" /\ view' # view)
           => <<view, view'>> \in ScreenTransitions ]_vars

\* C5: the app mounts on the menu with activeChapter equal to the loaded
\* currentChapter; while it is mounted the view changes only along
\* menu->game, menu->chapters, chapters->game, chapters->menu and game->menu
\* (never game->chapters); and in every mounted state some screen transition
\* is enabled.
C5_ScreenMachine ==
  /\ [](phase = "mounted" => ENABLED ScreenStep)
  /\ ScreenMachineSteps

\* C5 witness: the game was entered through the chapter list (no record
\* loads chapter 10 as current) and left again for the menu.
C5_Witness ==
  /\ phase = "mounted" /\ view = "menu"
  /\ activeChapter = Num(NumChapters)

\* C6: at most one tooltip timer is pending and it is the visible tooltip's
\* (showing B cancels A's timer), and while the chapter list stays up a
\* visible tooltip changes only by another showTooltip or by its own timer
\* firing.
C6_TooltipHiddenOnlyByOwnTimer ==
  [][ /\ \A t \in tooltipTimers : t.live /\ t.idx \in visibleTooltip
      /\ ( /\ phase = "mounted" /\ phase' = "mounted"
           /\ view = "chapters" /\ view' = "chapters"
           /\ visibleTooltip # {} /\ visibleTooltip' # visibleTooltip )
         => \/ \E i \in Indexes : ClickLockedChapter(i)
            \/ \E t \in tooltipTimers :
                 t.idx \in visibleTooltip /\ TooltipTimeout(t) ]_vars

\* C7: while the view stays Game, a fade overlay that has become hidden
\* never becomes opaque again.
C7_FadeNeverReshown ==
  [][ ( /\ phase = "mounted" /\ phase' = "mounted"
        /\ view = "game" /\ view' = "game"
        /\ ~isFadingIn )
      => ~isFadingIn' ]_vars

\* GameStates of the data model: both fields integers >= 1.
DataModelStates ==
  { Obj(<<Prop(CurrentChapterKey, Num(c)),
          Prop(UnlockedChaptersKey, Num(u))>>) : c, u \in 1..(MaxStored + 1) }

\* C8: for the state s the app holds and for every GameState s of the data
\* model, with the persisted content written by save(s): load() returns s,
\* save(load()) leaves the content identical, and the next load() returns s.
C8_SaveLoadRoundTrip ==
  phase = "mounted"
    => \A s \in {gameState} \cup DataModelStates :
         LET written == saveGameState(s, Absent, FALSE).store
             loaded == loadGameState(written, FALSE).state
             rewritten == saveGameState(loaded, written, FALSE).store
         IN  /\ loaded = s
             /\ rewritten = written
             /\ loadGameState(rewritten, FALSE).state = s

\* C8 witness: the app has just been mounted (load, then save) on a record
\* that only an earlier save of this app can have written, and the persisted
\* content is the text of the state it holds.
C8_Witness ==
  /\ phase = "mounted" /\ view = "menu"
  /\ out = {"setItem"}
  /\ Field(gameState, CurrentChapterKey) = Num(NumChapters)
  /\ storage = Stored(JsonStringify(gameState))

\* A step that runs the save effect: the mount, or an entry into the game.
SavingStep ==
  \/ phase = "unmounted" /\ phase' # "unmounted"
  \/ phase = "mounted" /\ view # "game" /\ view' = "game"

\* C9: a save whose write fails logs the error and leaves the persisted
\* entry untouched, and the step still commits in memory what it commits
\* when the write succeeds (the mount: the menu on the loaded state; an
\* entry into the game: Game(n) with currentChapter n and a fresh GameView);
\* a save whose write succeeds leaves the persisted record equal to the
\* in-memory GameState.
C9_FailedSaveIsSwallowed ==
  [][ SavingStep
        => /\ phase' = "mounted"
           /\ phase = "unmounted"
                => /\ view' = "menu"
                   /\ gameState' =
                        IF storageDenied' THEN defaultGameState
                        ELSE Persisted(storage)
                   /\ activeChapter' = Field(gameState', CurrentChapterKey)
           /\ phase = "mounted"
                => /\ view' = "game"
                   /\ gameState' =
                        Obj(SetProp(gameState.props, CurrentChapterKey,
                                    activeChapter'))
                   /\ view = "menu"
                        => activeChapter' = Field(gameState, CurrentChapterKey)
                   /\ gameViewVars' = <<FALSE, FALSE, TRUE, TRUE>>
           /\ "setItem" \notin out'
                => /\ "error:save" \in out'
                   /\ storage' = storage
           /\ "setItem" \in out'
                => /\ storage' = Stored(JsonStringify(gameState'))
                   /\ Persisted(storage') = gameState' ]_vars

\* C9 witness: in the game after a failed save, the persisted record behind
\* the in-memory state.
C9_Witness ==
  /\ phase = "mounted" /\ view = "game"
  /\ "error:save" \in out
  /\ Persisted(storage) # gameState

\* C10: while the app is mounted no step changes unlockedChapters in memory,
\* no step at all changes the unlockedChapters that load() reads from the
\* persisted record, and after a successful save that value is the one in
\* memory.
C10_UnlockedChaptersNeverChanges ==
  [][ /\ (phase = "mounted" /\ phase' = "mounted")
           => Field(gameState', UnlockedChaptersKey)
                = Field(gameState, UnlockedChaptersKey)
      /\ Field(Persisted(storage'), UnlockedChaptersKey)
           = Field(Persisted(storage), UnlockedChaptersKey)
      /\ "setItem" \in out'
           => Field(Persisted(storage'), UnlockedChaptersKey)
                = Field(gameState', UnlockedChaptersKey) ]_vars

\* C10 witness: a chapter other than the loaded one has been entered and
\* saved, and unlockedChapters is still 3 in memory and in the record.
C10_Witness ==
  /\ phase = "mounted" /\ view = "game"
  /\ "setItem" \in out
  /\ Field(gameState, CurrentChapterKey) = Num(2)
  /\ Field(gameState, UnlockedChaptersKey) = Num(3)
  /\ Field(Persisted(storage), UnlockedChaptersKey) = Num(3)

\* C11: in the Game view with the restart confirmation open, declining
\* closes only the confirmation (the view stays Game, GameState, activeChapter
\* and the persisted record are unchanged, the panel keeps its visibility);
\* confirming closes the confirmation and the panel and leaves GameState,
\* activeChapter, the persisted record and the view unchanged. The
\* confirmation is open in the Game view only.
C11_RestartConfirmFrame ==
  /\ [](showRestartConfirm => phase = "mounted" /\ view = "game")
  /\ [][ (phase = "mounted" /\ view = "game" /\ showRestartConfirm)
          => /\ DeclineRestart
                  => /\ ~showRestartConfirm'
                     /\ isPanelVisible' = isPanelVisible
                     /\ view' = "game" /\ phase' = "mounted"
                     /\ UNCHANGED <<gameState, activeChapter, storage>>
             /\ handleRestart
                  => /\ ~showRestartConfirm'
                     /\ ~isPanelVisible'
                     /\ view' = "game" /\ phase' = "mounted"
                     /\ UNCHANGED <<gameState, activeChapter, storage>> ]_vars

\* C11 witness: the restart was just confirmed in Game(2): confirmation and
\* panel are closed, the view is still the game.
C11_Witness ==
  /\ phase = "mounted" /\ view = "game"
  /\ "log:restart" \in out
  /\ ~showRestartConfirm /\ ~isPanelVisible
  /\ activeChapter = Num(2)
  /\ Field(gameState, CurrentChapterKey) = Num(2)

\* Values of unlockedChapters the lock predicate is compared on: every count
\* from below the first chapter to above the last.
UnlockedCounts == (0 - 1)..(NumChapters + 1)

\* C12: for every chapter number n in 1..10 and every number u, isLocked(n, u)
\* equals n > u, so the chapter n = u is not locked; on the chapter list a
\* slot shows its tooltip exactly when n > unlockedChapters and opens the game
\* exactly when n <= unlockedChapters.
C12_LockPredicate ==
  /\ [](\A n \in 1..NumChapters, u \in UnlockedCounts :
          /\ isLocked(n, Num(u)) = (n > u)
          /\ (n = u) => ~isLocked(n, Num(u)))
  /\ [][ \A i \in Indexes :
           LET u == Field(gameState, UnlockedChaptersKey)
           IN  (phase = "mounted" /\ view = "chapters" /\ u.t = "number")
                 => /\ ClickLockedChapter(i) => (i + 1 > u.n)
                    /\ ClickUnlockedChapter(i) => (i + 1 <= u.n)
                    /\ isLocked(i + 1, u) = (i + 1 > u.n) ]_vars

\* C12 witness: chapter 3 was entered from the chapter list with
\* unlockedChapters = 3 (the record still names chapter 1, its save failed).
C12_Witness ==
  /\ phase = "mounted" /\ view = "game"
  /\ storage = Stored(Rec(NumTok(1), NumTok(3)))
  /\ activeChapter = Num(3)
  /\ Field(gameState, UnlockedChaptersKey) = Num(3)

\* The original reading of C13: every step of the mounted app that changes
\* view, GameState or activeChapter makes exactly one save call, carrying the
\* GameState the step committed.
C13_SaveAfterEveryStateChange ==
  [][ (phase = "mounted" /\ phase' = "mounted" /\ appVars' # appVars)
        => saveCalls' = <<gameState'>> ]_vars

\* C13: every step that sets GameState (an entry into the game, by Start or
\* by selecting an unlocked chapter) makes exactly one save call, its argument
\* is the GameState the step committed, and when the write succeeds the
\* persisted text is the text of that state, so the record always follows
\* the latest change; a step of the mounted app that does not set GameState
\* (Load, Back, Exit, the view-local steps) leaves GameState as it was and
\* makes no save call.
C13_SaveAfterEveryGameStateChange ==
  [][ (phase = "mounted" /\ phase' = "mounted")
        => IF view # "game" /\ view' = "game"
           THEN /\ saveCalls' = <<gameState'>>
                /\ gameState' = Obj(SetProp(gameState.props, CurrentChapterKey,
                                            activeChapter'))
                /\ "setItem" \in out'
                     => storage' = Stored(JsonStringify(gameState'))
                /\ "setItem" \notin out' => storage' = storage
           ELSE /\ saveCalls' = <<>>
                /\ gameState' = gameState
                /\ storage' = storage ]_vars

\* C13 witness: chapter 2 has just been entered, the one save call of the
\* step carried the new GameState and the record holds its text.
C13_Witness ==
  /\ phase = "mounted" /\ view = "game"
  /\ saveCalls = <<gameState>>
  /\ Field(gameState, CurrentChapterKey) = Num(2)
  /\ "setItem" \in out
  /\ storage = Stored(JsonStringify(gameState))

\* C14: leaving the chapter list (Back, or selecting an unlocked chapter)
\* while a tooltip timer is pending cancels it: no tooltip timer is pending
\* outside the mounted chapter list, and a tooltip callback only ever runs
\* on the mounted chapter list, for the component that armed it.
C14_UnmountCancelsTooltipTimer ==
  /\ []((phase = "mounted" /\ view = "chapters") \/ tooltipTimers = {})
  /\ [][ /\ ( /\ phase = "mounted" /\ view = "chapters"
               /\ phase' = "mounted" /\ view' # "chapters"
               /\ tooltipTimers # {} )
             => /\ tooltipTimers' = {}
                /\ "clearTimeout" \in out'
         /\ (\E t \in tooltipTimers : TooltipTimeout(t))
             => /\ phase = "mounted" /\ view = "chapters"
                /\ \A t \in tooltipTimers : t.live ]_vars

\* C14 witness: Back has just left the chapter list and cancelled the
\* pending tooltip timer on the way.
C14_Witness ==
  /\ phase = "mounted" /\ view = "menu"
  /\ "clearTimeout" \in out
  /\ tooltipTimers = {}
  /\ visibleTooltip = {}

\* C15: once the app is torn down, at whatever point of the sound load
\* (during the fetch, the body read or the decode), no later step starts a
\* decode on the audio context, stores a decoded buffer into the app state
\* or logs a load error; the cancellation flag is set from the teardown on.
C15_TeardownCancelsSoundLoad ==
  /\ [](phase = "torndown" => isCancelled)
  /\ [][ isCancelled
          => /\ "decodeAudioData" \notin out'
             /\ "error:audio" \notin out'
             /\ audioBuffer' => audioBuffer
             /\ soundPc' = "decode" => soundPc = "decode"
             /\ soundPc' = "done" => soundPc = "done"
             /\ phase' = "torndown" => UNCHANGED <<appVars, gameViewVars>>
        ]_vars

\* C15 witness: the app was torn down while the load was in flight, the
\* awaited step has settled since, and loadSound returned on the flag with
\* no buffer stored.
C15_Witness ==
  /\ phase = "torndown" /\ isCancelled
  /\ soundPc = "returned"
  /\ ~audioBuffer

\* The audio context, the gain node and the decoded buffer are all set.
SoundReady == audioContext /\ audioBuffer /\ gainNode

\* A step of a handler that calls playClickSound.
ClickHandlerStep ==
  \/ Start
  \/ OpenChapters
  \/ \E index \in Indexes : ClickLockedChapter(index)
  \/ \E index \in Indexes : ClickUnlockedChapter(index)
  \/ Back
  \/ handleChoice

\* C16: a step taken while context, gain node or buffer is not ready plays
\* nothing, also the step on which the buffer becomes ready (nothing was
\* queued); playback only ever happens in the step of the handler that asks
\* for it; and a handler whose sound is dropped still makes its state change.
C16_UnreadyClickIsDropped ==
  [][ /\ ~SoundReady => "click" \notin out'
      /\ "click" \in out' => SoundReady /\ ClickHandlerStep
      /\ (~SoundReady /\ phase = "mounted")
           => /\ Start => (view' = "game" /\ phase' = "mounted")
              /\ OpenChapters => view' = "chapters"
              /\ Back => view' = "menu"
              /\ \A i \in Indexes :
                   /\ ClickLockedChapter(i) => visibleTooltip' = {i}
                   /\ ClickUnlockedChapter(i)
                        => (view' = "game" /\ activeChapter' = Num(i + 1))
              /\ handleChoice => "log:choice" \in out' ]_vars

\* C16 witness: a dialogue choice was clicked in the game before the buffer
\* was decoded: the handler ran and nothing was played.
C16_Witness ==
  /\ phase = "mounted" /\ view = "game"
  /\ ~audioBuffer /\ soundPc = "decode"
  /\ out = {"log:choice"}

\* C17: in the Game view a click on the trigger area flips panel visibility
\* and nothing else; a click on the restart button opens the confirmation
\* and leaves panel visibility as it was; a click on the exit button goes to
\* the menu and changes neither GameState nor activeChapter.
C17_PanelButtonsDoNotToggle ==
  [][ (phase = "mounted" /\ view = "game")
        => /\ togglePanel
                => /\ isPanelVisible' = ~isPanelVisible
                   /\ UNCHANGED <<appVars, showRestartConfirm, isFadingIn>>
           /\ ClickRestart
                => /\ showRestartConfirm'
                   /\ isPanelVisible' = isPanelVisible
                   /\ UNCHANGED <<appVars, isFadingIn>>
           /\ Exit
                => /\ view' = "menu"
                   /\ UNCHANGED <<gameState, activeChapter, storage>> ]_vars

\* C17 witness: the panel was opened through the trigger area and the
\* restart button clicked: the confirmation is open over a panel that is
\* still visible.
C17_Witness ==
  /\ phase = "mounted" /\ view = "game"
  /\ showRestartConfirm /\ isPanelVisible
  /\ ~isFadingIn

\* C18: whenever the app is mounted (and after its teardown) activeChapter
\* equals GameState.currentChapter: the chapter the Game view shows is the
\* chapter recorded as current.
C18_ActiveChapterIsCurrentChapter ==
  phase \in {"mounted", "torndown"}
    => activeChapter = Field(gameState, CurrentChapterKey)

\* C18 witness: chapter 2 was entered from the chapter list (the record,
\* whose save failed, still names chapter 1) and both activeChapter and
\* currentChapter are 2.
C18_Witness ==
  /\ phase = "mounted" /\ view = "game"
  /\ activeChapter = Num(2)
  /\ Field(gameState, CurrentChapterKey) = Num(2)
  /\ Field(Persisted(storage), CurrentChapterKey) = Num(1)

\* C19: whenever the view is Game the active chapter is not locked:
\* activeChapter and unlockedChapters are numbers with
\* activeChapter <= unlockedChapters, and the lock predicate is false of the
\* active chapter.
C19_ActiveChapterNotLocked ==
  (phase = "mounted" /\ view = "game")
    => LET u == Field(gameState, UnlockedChaptersKey)
       IN  /\ ~GreaterThan(activeChapter, u)
           /\ (activeChapter.t = "number" /\ u.t = "number")
                => activeChapter.n <= u.n

====
